---- MODULE Spec2Model ----
(***************************************************************************)
(* A model of randrctl/ctl.py: the RandrCtl facade (switch_to,             *)
(* switch_auto), the Hook wrapper around Xrandr.apply (Hook.decorate,      *)
(* Hook.hook) and CtlFactory.ensure_homes.                                 *)
(*                                                                         *)
(* Python values.  A str is a sequence of one-character strings.  An       *)
(* Optional[str] is a record [some, val]: None is [some |-> FALSE] and the *)
(* string s is Str(s).  An exception is a record [cls, args] and str(e) is *)
(* computed from args as Python's BaseException.__str__ does.              *)
(*                                                                         *)
(* Two specifications share the variables.  Spec is one process that owns  *)
(* a RandrCtl object and calls switch_to / switch_auto on it, the          *)
(* hook-wrapped apply being stepped statement by statement.  SpecHomes is  *)
(* a CtlFactory over a filesystem, calling ensure_homes.                   *)
(***************************************************************************)
EXTENDS Integers, Sequences, FiniteSets, TLC

VARIABLES
    \* ---- Hook object and the patched Xrandr (ctl.py 123-141)
    decorated,        \* TRUE iff xrandr.apply has been replaced by apply_hook
    prior_switch,     \* Hook.prior_switch  (Optional[str])
    post_switch,      \* Hook.post_switch   (Optional[str])
    post_fail,        \* Hook.post_fail     (Optional[str])
    \* ---- the running process
    environ,          \* os.environ
    profiles,         \* what the ProfileManager can read (a set of profiles)
    \* ---- the public operation in flight
    op,               \* "none", "switch_to" or "switch_auto"
    profile_name,     \* argument of switch_to
    xrandr_outputs,   \* what get_connected_outputs returned to switch_auto
    pc,               \* position: idle, prior_switch, do_apply, post_switch,
                      \*           post_fail, returned, raised
    p,                \* the profile handed to xrandr.apply
    exc,              \* the exception caught by apply_hook / reaching the caller
    trace,            \* what the operation has done so far, in order
    children,         \* the hook children launched by the operation in
                      \* flight, in order: "running", "exit0" or "exit1"
    environ0,         \* the environment the process was started with
    earlier_error,    \* randr_error given to the post-fail child of the
                      \* latest earlier operation that launched one
    \* ---- CtlFactory and the filesystem (ctl.py 164-182, 237-244)
    homes,            \* CtlFactory.homes
    preferred_home,   \* CtlFactory.preferred_home
    dirs,             \* the directories that exist, as <<home, subdirectory>>
    eh,               \* record of the last ensure_homes call
    \* ---- CtlFactory.get_randrctl (ctl.py 194-235)
    files,            \* the config file of each home: what yaml.load makes
                      \* of it, or that it does not exist
    gr,               \* record of the get_randrctl call
    \* ---- RandrCtl.dump_current (ctl.py 44-77)
    dc                \* record of the last dump_current call

pvars == <<decorated, prior_switch, post_switch, post_fail, environ, profiles,
           op, profile_name, xrandr_outputs, pc, p, exc, trace, children,
           environ0, earlier_error>>
hvars == <<homes, preferred_home, dirs, eh>>
cvars == <<files, gr>>
dvars == <<dc>>
vars == <<pvars, hvars, cvars, dvars>>

-----------------------------------------------------------------------------
(* Bounds *)

\* longest hook command generated
MaxCmdLen == 1
\* number of distinct home paths
NumHomes == 3
\* longest list of candidate homes given to CtlFactory
MaxHomes == 2

-----------------------------------------------------------------------------
(* Python values *)

None == [some |-> FALSE, val |-> <<>>]
Str(s) == [some |-> TRUE, val |-> s]

\* the characters commands are made of; " " is the whitespace one
Chars == {" ", "e"}
Whitespace == {" "}

RECURSIVE lstrip(_)
lstrip(s) == IF s = <<>> THEN s
             ELSE IF Head(s) \in Whitespace THEN lstrip(Tail(s)) ELSE s

RECURSIVE rstrip(_)
rstrip(s) == IF s = <<>> THEN s
             ELSE IF s[Len(s)] \in Whitespace
                  THEN rstrip(SubSeq(s, 1, Len(s) - 1)) ELSE s

\* str.strip()
strip(s) == rstrip(lstrip(s))

\* truth value of an Optional[str]: None and "" are false
truthy(o) == o.some /\ Len(o.val) > 0

NoExc == [cls |-> "", args |-> <<>>]

\* str(e) of an exception built with zero or one string argument
PyStr(e) == IF Len(e.args) = 0 THEN <<>> ELSE e.args[1]

\* every str of length at most n over Chars
RECURSIVE StrsUpTo(_)
StrsUpTo(n) == IF n = 0 THEN {<<>>}
               ELSE StrsUpTo(n - 1) \cup
                    {Append(s, c) : s \in {t \in StrsUpTo(n - 1) : Len(t) = n - 1},
                                    c \in Chars}

\* the values a hook of the config can have: unset, or a command string
HookValues == {None} \cup {Str(s) : s \in StrsUpTo(MaxCmdLen)}

-----------------------------------------------------------------------------
(* The process environment *)

EnvVars == {"PATH", "randr_profile", "randr_error"}
NoEnv == [v \in EnvVars |-> None]

\* environments the process can be started in: randr_error may be inherited
Environs ==
    { [v \in EnvVars |-> IF v = "PATH" THEN Str(<<"/">>)
                         ELSE IF v = "randr_error" THEN e ELSE None]
      : e \in {None, Str(<<"o", "l", "d">>)} }

-----------------------------------------------------------------------------
(* Profiles, the ProfileManager and the ProfileMatcher *)

Outputs == {"DP-1", "eDP-1"}

NoProfile == [name |-> <<>>, priority |-> 0, outputs |-> {}]
Office == [name |-> <<"o">>, priority |-> 100, outputs |-> {"DP-1"}]
Laptop == [name |-> <<"l">>, priority |-> 50, outputs |-> {"eDP-1"}]
AllProfiles == {Office, Laptop}

\* names a caller may ask switch_to for; <<"x">> is never stored
RequestNames == {pr.name : pr \in AllProfiles} \cup {<<"x">>}

\* ProfileManager.read_one: the stored profile, or a not-found error
read_one(name) ==
    IF \E pr \in profiles : pr.name = name
    THEN [raised |-> NoExc, value |-> CHOOSE pr \in profiles : pr.name = name]
    ELSE [raised |-> [cls |-> "NotFound", args |-> <<name>>], value |-> NoProfile]

\* ProfileManager.read_all
read_all == profiles

\* a profile is eligible iff every output it names is connected
eligible(pr, connected) == pr.outputs \subseteq connected

\* name-only weight of a profile without rules: 1 per output
score(pr) == Cardinality(pr.outputs)

better(a, b) ==
    \/ score(a) > score(b)
    \/ score(a) = score(b) /\ a.priority > b.priority
    \/ score(a) = score(b) /\ a.priority = b.priority
       /\ Cardinality(a.outputs) >= Cardinality(b.outputs)

\* ProfileMatcher.find_best: the top eligible profile, or None
find_best(profs, connected) ==
    LET ok == {pr \in profs : eligible(pr, connected)}
    IN IF ok = {} THEN [found |-> FALSE, value |-> NoProfile]
       ELSE [found |-> TRUE,
             value |-> CHOOSE a \in ok : \A b \in ok : a = b \/ better(a, b)]

\* errors the Display Controller's apply may raise: with and without a message
ApplyErrors ==
    { [cls |-> "XrandrException", args |-> <<>>],
      [cls |-> "XrandrException", args |-> << <<"b", "o", "o", "m">> >>] }

-----------------------------------------------------------------------------
(* Events of the trace *)

Event(kind, site, cmd, env, ok, err, name) ==
    [kind |-> kind, site |-> site, cmd |-> cmd, env |-> env, ok |-> ok,
     err |-> err, name |-> name]

\* subprocess.Popen(cmd, env=env, shell=True); ok iff a child was started
PopenEv(cmd, env, ok) == Event("Popen", "", cmd, env, ok, NoExc, <<>>)
\* logger.<level>(...) at a place of the code
LogEv(level, site) == Event(level, site, None, NoEnv, TRUE, NoExc, <<>>)
\* do_apply(p): ok iff it returned, else err is what it raised
ApplyEv(prof, ok, err) == Event("do_apply", "xrandr", None, NoEnv, ok, err, prof.name)
\* a call of Hook.hook from apply_hook (made whether or not the command is set)
HookEv(site) == Event("hook", site, None, NoEnv, TRUE, NoExc, <<>>)

Tag(site, evs) == [i \in 1..Len(evs) |-> [evs[i] EXCEPT !.site = site]]

-----------------------------------------------------------------------------
(* Hook.hook (ctl.py 143-153) *)

\* the environment handed to the child: a copy of os.environ with
\* randr_profile set, and randr_error set when err is truthy
hook_env(prof, err) ==
    LET env == [environ EXCEPT !["randr_profile"] = Str(prof.name)]
    IN IF truthy(err) THEN [env EXCEPT !["randr_error"] = err] ELSE env

\* what subprocess.Popen raises when it cannot start the shell
PopenError == [cls |-> "OSError", args |-> << <<"s", "h">> >>]

\* a bug: the launch failure is not caught (no try/except around Popen)
hook_propagates(cmd, prof, err, started) ==
    IF cmd /= None /\ Len(strip(cmd.val)) > 0
    THEN IF started
         THEN [events |-> <<PopenEv(cmd, hook_env(prof, err), TRUE)>>,
               raised |-> NoExc, environ |-> environ, children |-> <<"running">>]
         ELSE [events |-> <<PopenEv(cmd, hook_env(prof, err), FALSE)>>,
               raised |-> PopenError, environ |-> environ, children |-> <<>>]
    ELSE [events |-> <<>>, raised |-> NoExc, environ |-> environ,
          children |-> <<>>]

\* a bug: the command is tested for None only, so a blank one is run
hook_runs_blank(cmd, prof, err, started) ==
    IF cmd /= None
    THEN IF started
         THEN [events |-> <<PopenEv(cmd, hook_env(prof, err), TRUE)>>,
               raised |-> NoExc, environ |-> environ, children |-> <<"running">>]
         ELSE [events |-> <<PopenEv(cmd, hook_env(prof, err), FALSE),
                            Event("warning", "", cmd, NoEnv, TRUE, PopenError, <<>>)>>,
               raised |-> NoExc, environ |-> environ, children |-> <<>>]
    ELSE [events |-> <<>>, raised |-> NoExc, environ |-> environ,
          children |-> <<>>]

\* a bug: randr_profile and randr_error are written into os.environ itself
hook_writes_environ(cmd, prof, err, started) ==
    IF cmd /= None /\ Len(strip(cmd.val)) > 0
    THEN IF started
         THEN [events |-> <<PopenEv(cmd, hook_env(prof, err), TRUE)>>,
               raised |-> NoExc, environ |-> hook_env(prof, err),
               children |-> <<"running">>]
         ELSE [events |-> <<PopenEv(cmd, hook_env(prof, err), FALSE),
                            Event("warning", "", cmd, NoEnv, TRUE, PopenError, <<>>)>>,
               raised |-> NoExc, environ |-> hook_env(prof, err),
               children |-> <<>>]
    ELSE [events |-> <<>>, raised |-> NoExc, environ |-> environ,
          children |-> <<>>]

\* One call hook(cmd, prof, err).  started says whether Popen starts a child
\* or raises PopenError, which the except clause catches and logs.  The
\* result is what the call did, the exception it lets escape (NoExc: it
\* returns), os.environ after it (untouched: the child's environment is a
\* copy) and the children it leaves behind, with their state when it
\* returns (running: Popen's result is dropped without wait()).
hook(cmd, prof, err, started) ==
    IF cmd /= None /\ Len(strip(cmd.val)) > 0
    THEN IF started
         THEN [events |-> <<PopenEv(cmd, hook_env(prof, err), TRUE)>>,
               raised |-> NoExc, environ |-> environ, children |-> <<"running">>]
         ELSE [events |-> <<PopenEv(cmd, hook_env(prof, err), FALSE),
                            Event("warning", "", cmd, NoEnv, TRUE, PopenError, <<>>)>>,
               raised |-> NoExc, environ |-> environ, children |-> <<>>]
    ELSE [events |-> <<>>, raised |-> NoExc, environ |-> environ,
          children |-> <<>>]

\* a bug: the process waits for every child it has launched
awaited_all == DOMAIN children

\* the children the process waits for before its next statement: none, as
\* neither hook nor apply_hook keeps the Popen object or calls wait()
awaited == {}

\* the next statement of the operation in flight can run
Unblocked == \A i \in awaited : children[i] /= "running"

-----------------------------------------------------------------------------
(* Hook.decorate / apply_hook (ctl.py 128-141) *)

\* a bug: the prior-switch hook is run after the controller call
apply_hook_prior_late(stage, raised) ==
    CASE stage = "entry" -> "do_apply"
      [] stage = "do_apply" ->
            IF raised = NoExc THEN "prior_switch" ELSE "post_fail"
      [] stage = "prior_switch" ->
            IF raised = NoExc THEN "post_switch" ELSE "post_fail"
      [] stage = "post_switch" ->
            IF raised = NoExc THEN "returned" ELSE "post_fail"
      [] stage = "post_fail" -> "raised"

\* a bug: the post-switch hook is run as a `finally`, also after a failure
apply_hook_post_always(stage, raised) ==
    CASE stage = "entry" -> "prior_switch"
      [] stage = "prior_switch" ->
            IF raised = NoExc THEN "do_apply" ELSE "post_fail"
      [] stage = "do_apply" -> "post_switch"
      [] stage = "post_switch" ->
            IF raised = NoExc /\ exc = NoExc THEN "returned" ELSE "post_fail"
      [] stage = "post_fail" -> "raised"

\* a bug: the post-fail hook is run as a `finally`, also after a success
apply_hook_fail_always(stage, raised) ==
    CASE stage = "entry" -> "prior_switch"
      [] stage = "prior_switch" ->
            IF raised = NoExc THEN "do_apply" ELSE "post_fail"
      [] stage = "do_apply" ->
            IF raised = NoExc THEN "post_switch" ELSE "post_fail"
      [] stage = "post_switch" -> "post_fail"
      [] stage = "post_fail" -> IF exc = NoExc THEN "returned" ELSE "raised"

\* a bug: the except clause does not re-raise
apply_hook_swallows(stage, raised) ==
    CASE stage = "entry" -> "prior_switch"
      [] stage = "prior_switch" ->
            IF raised = NoExc THEN "do_apply" ELSE "post_fail"
      [] stage = "do_apply" ->
            IF raised = NoExc THEN "post_switch" ELSE "post_fail"
      [] stage = "post_switch" ->
            IF raised = NoExc THEN "returned" ELSE "post_fail"
      [] stage = "post_fail" -> "returned"

\* The statement apply_hook runs after statement `stage` has returned
\* (raised = NoExc) or raised: the try body runs prior_switch, do_apply,
\* post_switch in order; anything raised in it goes to the except clause,
\* which runs post_fail and re-raises.
apply_hook_next(stage, raised) ==
    CASE stage = "entry" -> "prior_switch"
      [] stage = "prior_switch" ->
            IF raised = NoExc THEN "do_apply" ELSE "post_fail"
      [] stage = "do_apply" ->
            IF raised = NoExc THEN "post_switch" ELSE "post_fail"
      [] stage = "post_switch" ->
            IF raised = NoExc THEN "returned" ELSE "post_fail"
      [] stage = "post_fail" -> "raised"

\* the hook command apply_hook passes at a stage
stage_cmd(stage) ==
    CASE stage = "prior_switch" -> prior_switch
      [] stage = "post_switch" -> post_switch
      [] stage = "post_fail" -> post_fail

\* the err argument apply_hook passes at a stage: str(e) for post_fail only
stage_err(stage) == IF stage = "post_fail" THEN Str(PyStr(exc)) ELSE None

\* xrandr.apply(prof): apply_hook when decorated, else the controller's own
xrandr_apply == IF decorated THEN apply_hook_next("entry", NoExc) ELSE "do_apply"

-----------------------------------------------------------------------------
(* RandrCtl.switch_to and switch_auto (ctl.py 22-42) up to the call of     *)
(* xrandr.apply                                                            *)

\* a bug: a missing profile is swallowed and the operation returns
switch_to_swallows(name) ==
    LET r == read_one(name)
    IN IF r.raised /= NoExc
       THEN [pc |-> "returned", p |-> NoProfile, exc |-> NoExc, events |-> <<>>]
       ELSE [pc |-> xrandr_apply, p |-> r.value, exc |-> NoExc, events |-> <<>>]

switch_to(name) ==
    LET r == read_one(name)
    IN IF r.raised /= NoExc
       THEN [pc |-> "raised", p |-> NoProfile, exc |-> r.raised, events |-> <<>>]
       ELSE [pc |-> xrandr_apply, p |-> r.value, exc |-> NoExc, events |-> <<>>]

\* a bug: the result of find_best is applied without the None test
switch_auto_applies_none(connected) ==
    LET matching == find_best(read_all, connected)
    IN [pc |-> xrandr_apply, p |-> matching.value, exc |-> NoExc, events |-> <<>>]

switch_auto(connected) ==
    LET matching == find_best(read_all, connected)
    IN IF matching.found
       THEN [pc |-> xrandr_apply, p |-> matching.value, exc |-> NoExc,
             events |-> <<>>]
       ELSE [pc |-> "returned", p |-> NoProfile, exc |-> NoExc,
             events |-> <<LogEv("warning", "switch_auto")>>]

-----------------------------------------------------------------------------
(* The process: Init and the actions of Spec *)

NoCall == [called |-> FALSE, candidates |-> <<>>, dirs |-> {}, made |-> {},
           log |-> <<>>]

Init ==
    /\ decorated \in BOOLEAN
    /\ prior_switch \in HookValues
    /\ post_switch \in HookValues
    /\ post_fail \in HookValues
    /\ decorated = FALSE =>
          prior_switch = None /\ post_switch = None /\ post_fail = None
    /\ environ \in Environs
    /\ profiles \in SUBSET AllProfiles
    /\ op = "none"
    /\ profile_name = <<>>
    /\ xrandr_outputs = {}
    /\ pc = "idle"
    /\ p = NoProfile
    /\ exc = NoExc
    /\ trace = <<>>
    /\ children = <<>>
    /\ environ0 = environ
    /\ earlier_error = None
    /\ homes = <<1>>
    /\ preferred_home = 1
    /\ dirs = {}
    /\ eh = NoCall
    /\ files = <<>>
    /\ gr = NoCall
    /\ dc = NoCall

Idle == pc \in {"idle", "returned", "raised"}

\* what the operation that has just ended leaves for earlier_error
EarlierError ==
    IF \E i \in DOMAIN trace :
          trace[i].kind = "Popen" /\ trace[i].site = "post_fail" /\ trace[i].ok
    THEN LET i == CHOOSE i \in DOMAIN trace :
                    trace[i].kind = "Popen" /\ trace[i].site = "post_fail" /\ trace[i].ok
         IN trace[i].env["randr_error"]
    ELSE earlier_error

\* the caller invokes switch_to(name)
SwitchTo(name) ==
    /\ Idle
    /\ LET r == switch_to(name)
       IN /\ pc' = r.pc
          /\ p' = r.p
          /\ exc' = r.exc
          /\ trace' = r.events
    /\ op' = "switch_to"
    /\ profile_name' = name
    /\ xrandr_outputs' = {}
    /\ children' = <<>>
    /\ earlier_error' = EarlierError
    /\ UNCHANGED <<decorated, prior_switch, post_switch, post_fail, environ,
                   environ0, profiles, hvars, cvars, dvars>>

\* the caller invokes switch_auto(); the controller reports `connected`
SwitchAuto(connected) ==
    /\ Idle
    /\ LET r == switch_auto(connected)
       IN /\ pc' = r.pc
          /\ p' = r.p
          /\ exc' = r.exc
          /\ trace' = r.events
    /\ op' = "switch_auto"
    /\ profile_name' = <<>>
    /\ xrandr_outputs' = connected
    /\ children' = <<>>
    /\ earlier_error' = EarlierError
    /\ UNCHANGED <<decorated, prior_switch, post_switch, post_fail, environ,
                   environ0, profiles, hvars, cvars, dvars>>

\* apply_hook runs one of its three self.hook(...) statements
HookStage(stage, started) ==
    /\ pc = stage
    /\ Unblocked
    /\ LET r == hook(stage_cmd(stage), p, stage_err(stage), started)
       IN /\ trace' = trace \o <<HookEv(stage)>> \o Tag(stage, r.events)
          /\ exc' = IF r.raised /= NoExc THEN r.raised ELSE exc
          /\ pc' = apply_hook_next(stage, r.raised)
          /\ environ' = r.environ
          /\ children' = children \o r.children
    /\ UNCHANGED <<decorated, prior_switch, post_switch, post_fail, environ0,
                   earlier_error, profiles, op, profile_name, xrandr_outputs,
                   p, hvars, cvars, dvars>>

PriorSwitchHook == \E started \in BOOLEAN : HookStage("prior_switch", started)
PostSwitchHook == \E started \in BOOLEAN : HookStage("post_switch", started)
PostFailHook == \E started \in BOOLEAN : HookStage("post_fail", started)

\* the Display Controller's apply returns
DoApplyReturns ==
    /\ pc = "do_apply"
    /\ Unblocked
    /\ trace' = Append(trace, ApplyEv(p, TRUE, NoExc))
    /\ pc' = IF decorated THEN apply_hook_next("do_apply", NoExc) ELSE "returned"
    /\ UNCHANGED <<decorated, prior_switch, post_switch, post_fail, environ,
                   environ0, earlier_error, children, profiles, op,
                   profile_name, xrandr_outputs, p, exc, hvars, cvars, dvars>>

\* the Display Controller's apply raises e
DoApplyRaises(e) ==
    /\ pc = "do_apply"
    /\ Unblocked
    /\ trace' = Append(trace, ApplyEv(p, FALSE, e))
    /\ exc' = e
    /\ pc' = IF decorated THEN apply_hook_next("do_apply", e) ELSE "raised"
    /\ UNCHANGED <<decorated, prior_switch, post_switch, post_fail, environ,
                   environ0, earlier_error, children, profiles, op,
                   profile_name, xrandr_outputs, p, hvars, cvars, dvars>>

Next ==
    \/ \E name \in RequestNames : SwitchTo(name)
    \/ \E connected \in SUBSET Outputs : SwitchAuto(connected)
    \/ PriorSwitchHook
    \/ DoApplyReturns
    \/ \E e \in ApplyErrors : DoApplyRaises(e)
    \/ PostSwitchHook
    \/ PostFailHook

Spec == Init /\ [][Next]_vars

-----------------------------------------------------------------------------
(* CtlFactory.ensure_homes over a filesystem (ctl.py 161-182, 237-244) *)

profile_dir == "profiles"

\* os.path.join(home, name); the home itself is join(home, "")
join(home, name) == <<home, name>>

\* os.path.isdir
isdir(path) == path \in dirs

is_valid_home(home_dir) == isdir(join(home_dir, profile_dir))

\* a bug: only the home is made, not its profiles subdirectory
init_home_without_profiles(home_dir) == dirs \cup {join(home_dir, "")}

\* init_home: os.makedirs(profiles, exist_ok=True) makes the home and its
\* profiles subdirectory where they are missing; returns the filesystem after
init_home(home_dir) ==
    dirs \cup {join(home_dir, ""), join(home_dir, profile_dir)}

\* list.count
count(seq, x) == Cardinality({i \in DOMAIN seq : seq[i] = x})

HLog(level, msg) == [level |-> level, msg |-> msg]

\* a bug: the preferred home is kept in front although it is not valid
ensure_homes_keeps_preferred ==
    LET valid_homes == SelectSeq(homes, is_valid_home)
    IN IF Len(valid_homes) = 0
       THEN [homes |-> <<preferred_home>>,
             dirs |-> init_home(preferred_home),
             log |-> <<HLog("warning", "No home directories found"),
                       HLog("warning", "Creating home"),
                       HLog("info", "Using as home directories")>>]
       ELSE IF count(valid_homes, preferred_home) = 0
       THEN [homes |-> <<preferred_home>> \o valid_homes,
             dirs |-> dirs,
             log |-> <<HLog("warning", "No home directory found under preferred location"),
                       HLog("info", "Using as home directories")>>]
       ELSE [homes |-> valid_homes,
             dirs |-> dirs,
             log |-> <<HLog("info", "Using as home directories")>>]

\* one call of ensure_homes: the new value of self.homes, the filesystem it
\* leaves and what it logged
ensure_homes ==
    LET valid_homes == SelectSeq(homes, is_valid_home)
    IN IF Len(valid_homes) = 0
       THEN [homes |-> <<preferred_home>>,
             dirs |-> init_home(preferred_home),
             log |-> <<HLog("warning", "No home directories found"),
                       HLog("warning", "Creating home"),
                       HLog("info", "Using as home directories")>>]
       ELSE IF count(valid_homes, preferred_home) = 0
       THEN [homes |-> valid_homes,
             dirs |-> dirs,
             log |-> <<HLog("warning", "No home directory found under preferred location"),
                       HLog("info", "Using as home directories")>>]
       ELSE [homes |-> valid_homes,
             dirs |-> dirs,
             log |-> <<HLog("info", "Using as home directories")>>]

HomePaths == 1..NumHomes

\* the candidate lists a CtlFactory can be built with: non-empty (homes[0]
\* is read by the constructor), possibly with repetitions
CandidateLists == UNION {[1..n -> HomePaths] : n \in 1..MaxHomes}

\* filesystems: a profiles subdirectory exists only inside an existing home
Filesystems ==
    {d \in SUBSET {join(h, n) : h \in HomePaths, n \in {"", profile_dir}} :
        \A h \in HomePaths : join(h, profile_dir) \in d => join(h, "") \in d}

\* CtlFactory(candidates) has just been constructed
InitHomes ==
    /\ homes \in CandidateLists
    /\ preferred_home = homes[1]
    /\ dirs \in Filesystems
    /\ eh = NoCall
    /\ decorated = FALSE
    /\ prior_switch = None
    /\ post_switch = None
    /\ post_fail = None
    /\ environ \in Environs
    /\ profiles = {}
    /\ op = "none"
    /\ profile_name = <<>>
    /\ xrandr_outputs = {}
    /\ pc = "idle"
    /\ p = NoProfile
    /\ exc = NoExc
    /\ trace = <<>>
    /\ children = <<>>
    /\ environ0 = environ
    /\ earlier_error = None
    /\ files = <<>>
    /\ gr = NoCall
    /\ dc = NoCall

EnsureHomes ==
    /\ LET r == ensure_homes
       IN /\ homes' = r.homes
          /\ dirs' = r.dirs
          /\ eh' = [called |-> TRUE, candidates |-> homes, dirs |-> dirs,
                    made |-> r.dirs \ dirs, log |-> r.log]
    /\ UNCHANGED <<preferred_home, pvars, cvars, dvars>>

NextHomes == EnsureHomes

SpecHomes == InitHomes /\ [][NextHomes]_vars

-----------------------------------------------------------------------------
(* CtlFactory.get_randrctl (ctl.py 184-235) *)

\* the top-level keys a config file may have: hooks, the one get_randrctl
\* reads, and any other one, which the merged dict only carries
TopKeys == {"hooks", "other"}

\* a top-level key a file does not have
Unset == [def |-> FALSE]
\* hooks: a mapping; a property it does not have reads as None
HooksSection(a, b, c) ==
    [def |-> TRUE, null |-> FALSE, prior_switch |-> a, post_switch |-> b,
     post_fail |-> c]
\* hooks: with no value, which yaml.load gives as None
HooksNull == [def |-> TRUE, null |-> TRUE]
\* the value of the other key
Other(v) == [def |-> TRUE, null |-> FALSE, val |-> v]

\* what a home's config file is: not there, not parsable (yaml.load raises
\* YAMLError), an empty document (yaml.load returns None) or a mapping
Absent == [kind |-> "absent"]
Malformed == [kind |-> "malformed"]
EmptyDoc == [kind |-> "empty"]
Mapping(hooks, other) == [kind |-> "mapping", hooks |-> hooks, other |-> other]

Cmd == Str(<<"e">>)
Blank == Str(<<" ">>)

\* the config files generated
Contents ==
    {Absent, Malformed, EmptyDoc,
     Mapping(HooksSection(Cmd, None, None), Unset),
     Mapping(HooksSection(None, Cmd, Cmd), Other("b")),
     Mapping(HooksSection(Blank, None, Str(<<>>)), Unset),
     Mapping(HooksSection(None, None, None), Other("a")),
     Mapping(Unset, Other("a")),
     Mapping(HooksNull, Unset)}

\* config = {}
EmptyConfig == [k \in TopKeys |-> Unset]

\* the log calls of get_randrctl
CLog(level, home) == [level |-> level, home |-> home]

\* what escapes get_randrctl for a document that is not a mapping, and for a
\* hooks section that is None
UpdateError == [cls |-> "TypeError", args |-> << <<"N">> >>]
GetError == [cls |-> "AttributeError", args |-> << <<"g">> >>]

\* _configs: the homes, in order, whose config file exists
configs(hs, fs) == SelectSeq(hs, LAMBDA h : fs[h].kind /= "absent")

\* list.reverse
reverse(s) == [i \in 1..Len(s) |-> s[Len(s) + 1 - i]]

\* a bug: the sections are merged property by property, a property the new
\* file leaves out keeping its earlier value
update_deep(config, doc) ==
    [k \in TopKeys |->
        IF ~doc[k].def THEN config[k]
        ELSE IF k = "hooks" /\ config[k].def /\ ~config[k].null /\ ~doc[k].null
             THEN HooksSection(
                    IF doc[k].prior_switch /= None THEN doc[k].prior_switch
                                                   ELSE config[k].prior_switch,
                    IF doc[k].post_switch /= None THEN doc[k].post_switch
                                                  ELSE config[k].post_switch,
                    IF doc[k].post_fail /= None THEN doc[k].post_fail
                                                ELSE config[k].post_fail)
             ELSE doc[k]]

\* dict.update: every key of doc replaces the value config had for it
update(config, doc) ==
    [k \in TopKeys |-> IF doc[k].def THEN doc[k] ELSE config[k]]

\* a bug: yaml.YAMLError is not caught
RECURSIVE load_aborts(_, _, _)
load_aborts(cfs, fs, acc) ==
    IF cfs = <<>> \/ acc.raised /= NoExc
    THEN acc
    ELSE LET h == Head(cfs)
             f == fs[h]
             r == CASE f.kind = "malformed" ->
                         [acc EXCEPT !.raised =
                             [cls |-> "YAMLError", args |-> << <<"y">> >>]]
                    [] f.kind = "empty" ->
                         [acc EXCEPT !.raised = UpdateError]
                    [] f.kind = "mapping" ->
                         [acc EXCEPT !.config = update(@, f),
                                     !.log = @ \o <<CLog("debug", h)>>]
         IN load_aborts(Tail(cfs), fs, r)

\* The loop of get_randrctl over config_files, from acc = what it has so
\* far: a file that does not parse is logged as an error and adds nothing; a
\* document that is not a mapping makes update raise, which nothing catches;
\* a mapping is merged and logged.
RECURSIVE load(_, _, _)
load(cfs, fs, acc) ==
    IF cfs = <<>> \/ acc.raised /= NoExc
    THEN acc
    ELSE LET h == Head(cfs)
             f == fs[h]
             r == CASE f.kind = "malformed" ->
                         [acc EXCEPT !.log = @ \o <<CLog("error", h)>>]
                    [] f.kind = "empty" ->
                         [acc EXCEPT !.raised = UpdateError]
                    [] f.kind = "mapping" ->
                         [acc EXCEPT !.config = update(@, f),
                                     !.log = @ \o <<CLog("debug", h)>>]
         IN load(Tail(cfs), fs, r)

\* _config_safe, where the section, if there, is a mapping
config_safe(config, section, property) ==
    IF config[section].def THEN config[section][property] ELSE None

\* a bug: the Hook is made and the controller wrapped whatever the config
decorates_always(a, b, c) == TRUE

\* the condition under which get_randrctl makes a Hook and decorates
decorates(a, b, c) == (a /= None) \/ (b /= None) \/ (c /= None)

\* get_randrctl on homes hs with config files fs: the merged config, the
\* log, what it raises (NoExc: it returns a RandrCtl) and, when it returns,
\* whether xrandr.apply is decorated and with which hooks
get_randrctl(hs, fs) ==
    LET config_files == reverse(configs(hs, fs))
        m == load(config_files, fs,
                  [config |-> EmptyConfig, log |-> <<>>, raised |-> NoExc])
        bare == [called |-> TRUE, config |-> m.config, log |-> m.log,
                 raised |-> m.raised, decorated |-> FALSE,
                 prior_switch |-> None, post_switch |-> None,
                 post_fail |-> None]
    IN IF m.raised /= NoExc THEN bare
       ELSE IF m.config["hooks"].def /\ m.config["hooks"].null
       THEN [bare EXCEPT !.raised = GetError]
       ELSE LET a == config_safe(m.config, "hooks", "prior_switch")
                b == config_safe(m.config, "hooks", "post_switch")
                c == config_safe(m.config, "hooks", "post_fail")
            IN IF decorates(a, b, c)
               THEN [bare EXCEPT !.decorated = TRUE, !.prior_switch = a,
                                 !.post_switch = b, !.post_fail = c]
               ELSE bare

\* CtlFactory(homes), with the config files the homes have
InitConfig ==
    /\ homes \in {[i \in 1..n |-> i] : n \in 1..MaxHomes}
    /\ preferred_home = homes[1]
    /\ files \in [HomePaths -> Contents]
    /\ \A h \in HomePaths : h > Len(homes) => files[h] = Absent
    /\ gr = NoCall
    /\ dirs = {}
    /\ eh = NoCall
    /\ dc = NoCall
    /\ decorated = FALSE
    /\ prior_switch = None
    /\ post_switch = None
    /\ post_fail = None
    /\ environ = [v \in EnvVars |-> None]
    /\ profiles = {Office}
    /\ op = "none"
    /\ profile_name = <<>>
    /\ xrandr_outputs = {}
    /\ pc = "idle"
    /\ p = NoProfile
    /\ exc = NoExc
    /\ trace = <<>>
    /\ children = <<>>
    /\ environ0 = environ
    /\ earlier_error = None

\* the caller invokes get_randrctl(); what it builds is the RandrCtl the
\* operations then run on
GetRandrctl ==
    /\ ~gr.called
    /\ LET r == get_randrctl(homes, files)
       IN /\ gr' = r
          /\ decorated' = r.decorated
          /\ prior_switch' = r.prior_switch
          /\ post_switch' = r.post_switch
          /\ post_fail' = r.post_fail
    /\ UNCHANGED <<environ, profiles, op, profile_name, xrandr_outputs, pc, p,
                   exc, trace, children, environ0, earlier_error, hvars,
                   files, dvars>>

\* the RandrCtl that get_randrctl returned is there to be used
Built == gr.called /\ gr.raised = NoExc

NextConfig ==
    \/ GetRandrctl
    \/ Built /\ SwitchTo(Office.name)
    \/ PriorSwitchHook
    \/ DoApplyReturns
    \/ \E e \in ApplyErrors : DoApplyRaises(e)
    \/ PostSwitchHook
    \/ PostFailHook

SpecConfig == InitConfig /\ [][NextConfig]_vars

-----------------------------------------------------------------------------
(* RandrCtl.dump_current (ctl.py 44-77) *)

\* a value that is set (a rate, an EDID, a mode, the modes supported)
Some(v) == [some |-> TRUE, val |-> v]

\* one output record of a profile, as captured
Output(name, rate) ==
    [name |-> name, mode |-> <<"m">> \o name, pos |-> <<"0", "x", "0">>,
     rotate |-> <<"n">>, primary |-> name = <<"D", "P">>, rate |-> rate]

\* one rule of a profile
Rule(edid, supports, prefers) ==
    [edid |-> edid, supports |-> supports, prefers |-> prefers]

\* the names of the connected outputs, in the order they are reported
LiveNames == <<<<"D", "P">>, <<"e", "D", "P">>>>

Rates == {None, Some(<<"6", "0">>)}
Rules ==
    {Rule(e, s, f) : e \in {None, Some(<<"i", "d">>)},
                     s \in {None, Some(<<<<"m">>>>)},
                     f \in {None, Some(<<"m">>)}}

\* what profile_from_xrandr(get_connected_outputs(), name) gives: an output
\* record and a rule for each connected output, any of the rate and of the
\* three signals of a rule set or not
LiveProfiles ==
    {[name |-> <<"x">>, priority |-> 100,
      outputs |-> [i \in 1..n |-> Output(LiveNames[i], rates[i])],
      rules |-> Some([i \in 1..n |-> rules[i]])] :
        n \in {1, Len(LiveNames)},
        rates \in [1..Len(LiveNames) -> Rates],
        rules \in [1..Len(LiveNames) -> Rules]}

\* the arguments of dump_current besides name
DumpArgs ==
    [to_file : BOOLEAN, include_supports_rule : BOOLEAN,
     include_preferred_rule : BOOLEAN, include_edid_rule : BOOLEAN,
     include_refresh_rate : BOOLEAN, priority : {100, 10},
     json_compatible : {FALSE}]

\* a bug: the flags of supports and prefers are taken one for the other
strip_rules_swapped(rules, a) ==
    IF ~(a.include_edid_rule \/ a.include_supports_rule
         \/ a.include_preferred_rule)
    THEN None
    ELSE Some([o \in DOMAIN rules.val |->
            [edid |-> IF ~a.include_edid_rule THEN None
                      ELSE rules.val[o].edid,
             supports |-> IF ~a.include_preferred_rule THEN None
                          ELSE rules.val[o].supports,
             prefers |-> IF ~a.include_supports_rule THEN None
                         ELSE rules.val[o].prefers]])

\* lines 59-68: rules = None when no rule is to be included, else each
\* rule loses the signals whose flag is false
strip_rules(rules, a) ==
    IF ~(a.include_edid_rule \/ a.include_supports_rule
         \/ a.include_preferred_rule)
    THEN None
    ELSE Some([o \in DOMAIN rules.val |->
            [edid |-> IF ~a.include_edid_rule THEN None
                      ELSE rules.val[o].edid,
             supports |-> IF ~a.include_supports_rule THEN None
                          ELSE rules.val[o].supports,
             prefers |-> IF ~a.include_preferred_rule THEN None
                         ELSE rules.val[o].prefers]])

\* a bug: the rate is cleared whatever include_refresh_rate says
strip_rate_always(outputs, a) ==
    [i \in DOMAIN outputs |-> [outputs[i] EXCEPT !.rate = None]]

\* lines 70-72: every output loses its rate when the rate is not to be
\* included
strip_rate(outputs, a) ==
    IF ~a.include_refresh_rate
    THEN [i \in DOMAIN outputs |-> [outputs[i] EXCEPT !.rate = None]]
    ELSE outputs

\* dump_current(name, **a) where profile_from_xrandr gave `live`: the
\* profile handed to the profile manager, and which of write and print got it
dump_current(live, a) ==
    [profile |-> [live EXCEPT !.priority = a.priority,
                              !.rules = strip_rules(live.rules, a),
                              !.outputs = strip_rate(live.outputs, a)],
     sink |-> IF a.to_file THEN "write" ELSE "print",
     yaml_flow_style |-> a.json_compatible]

\* a RandrCtl, and the live state its Display Controller reports
InitDump ==
    /\ dc \in {[called |-> FALSE, live |-> l] : l \in LiveProfiles}
    /\ files = <<>>
    /\ gr = NoCall
    /\ homes = <<1>>
    /\ preferred_home = 1
    /\ dirs = {}
    /\ eh = NoCall
    /\ decorated = FALSE
    /\ prior_switch = None
    /\ post_switch = None
    /\ post_fail = None
    /\ environ = [v \in EnvVars |-> None]
    /\ profiles = {}
    /\ op = "none"
    /\ profile_name = <<>>
    /\ xrandr_outputs = {}
    /\ pc = "idle"
    /\ p = NoProfile
    /\ exc = NoExc
    /\ trace = <<>>
    /\ children = <<>>
    /\ environ0 = environ
    /\ earlier_error = None

\* the caller invokes dump_current(name, **a)
DumpCurrent(a) ==
    /\ LET r == dump_current(dc.live, a)
       IN dc' = [called |-> TRUE, live |-> dc.live, args |-> a,
                 profile |-> r.profile, sink |-> r.sink,
                 yaml_flow_style |-> r.yaml_flow_style]
    /\ UNCHANGED <<pvars, hvars, cvars>>

NextDump == \E a \in DumpArgs : DumpCurrent(a)

SpecDump == InitDump /\ [][NextDump]_vars

-----------------------------------------------------------------------------
(* Reading the trace *)

\* a command that hook() would run: set, and not only whitespace
NonBlank(cmd) == cmd.some /\ \E i \in DOMAIN cmd.val : cmd.val[i] \notin Whitespace

\* the trace position i is a Popen of the hook of `site`
IsPopen(i, site) == trace[i].kind = "Popen" /\ trace[i].site = site
\* the trace position i is the Display Controller's apply, returning / raising
IsApply(i) == trace[i].kind = "do_apply"
ApplyReturned(i) == IsApply(i) /\ trace[i].ok
ApplyRaised(i) == IsApply(i) /\ ~trace[i].ok

Launched(site) == \E i \in DOMAIN trace : IsPopen(i, site)

\* the operation has ended: returned to, or raised into, its caller
Finished == pc \in {"returned", "raised"}
\* the hook-wrapped apply has been invoked by the operation in flight
Entered == decorated /\ pc /= "idle" /\ p /= NoProfile

-----------------------------------------------------------------------------
(* C1..C5: the order and the failure handling of the hook-wrapped apply *)

\* C1: with a non-blank prior_switch, every call of the controller's apply is
\* preceded in the same invocation by the launch (Popen) of the prior-switch
\* command, and every invocation that is past its first statement has made
\* that launch, whether the controller then returns or raises.
C1_PriorHookBeforeApply ==
    (decorated /\ NonBlank(prior_switch)) =>
        /\ \A i \in DOMAIN trace : IsApply(i) =>
              \E j \in 1..(i - 1) :
                  IsPopen(j, "prior_switch") /\ trace[j].cmd = prior_switch
        /\ (Entered /\ pc /= "prior_switch") => Launched("prior_switch")

\* an invocation whose prior-switch hook was launched and whose controller
\* call then raised has reached its caller
C1_Witness ==
    /\ decorated /\ NonBlank(prior_switch) /\ pc = "raised"
    /\ \E i \in DOMAIN trace : ApplyRaised(i)
    /\ Launched("prior_switch")

\* C2: with a non-blank post_switch, the post-switch command is launched only
\* after the controller's apply has returned, a finished invocation has
\* launched it iff the controller's apply returned, and no invocation in
\* which the controller's apply returned launches the post-fail command.
C2_PostHookIffSuccess ==
    (decorated /\ NonBlank(post_switch)) =>
        /\ \A i \in DOMAIN trace : IsPopen(i, "post_switch") =>
              \E j \in 1..(i - 1) : ApplyReturned(j)
        /\ (Entered /\ Finished) =>
              (Launched("post_switch") <=> \E j \in DOMAIN trace : ApplyReturned(j))
        /\ (\E j \in DOMAIN trace : ApplyReturned(j)) => ~Launched("post_fail")

\* a finished invocation whose controller call returned, with post_switch
\* launched and a post_fail command configured but not launched
C2_Witness ==
    /\ decorated /\ NonBlank(post_switch) /\ NonBlank(post_fail)
    /\ pc = "returned"
    /\ \E j \in DOMAIN trace : ApplyReturned(j)
    /\ Launched("post_switch") /\ ~Launched("post_fail")

\* C3: with a non-blank post_fail, the post-fail command is launched only
\* after the controller's apply has raised, whatever the three hook values
\* and whatever the prior- and post-switch launches did, and a finished
\* invocation has launched it iff the controller's apply raised.
C3_PostFailIffRaise ==
    (decorated /\ NonBlank(post_fail)) =>
        /\ \A i \in DOMAIN trace : IsPopen(i, "post_fail") =>
              \E j \in 1..(i - 1) : ApplyRaised(j)
        /\ (Entered /\ Finished) =>
              (Launched("post_fail") <=> \E j \in DOMAIN trace : ApplyRaised(j))

\* a finished invocation in which the post-switch launch failed after a
\* successful controller call, and post_fail, though configured, was not run
C3_Witness ==
    /\ decorated /\ NonBlank(post_fail) /\ Finished
    /\ \E i \in DOMAIN trace : IsPopen(i, "post_switch") /\ ~trace[i].ok
    /\ \E i \in DOMAIN trace : IsPopen(i, "prior_switch") /\ ~trace[i].ok
    /\ ~Launched("post_fail")

\* C4: once the controller's apply has raised e inside the hook-wrapped
\* apply, the invocation can only end by raising, the error that reaches the
\* caller is e itself, and by then hook(post_fail, ...) has been called after
\* the controller call.
C4_OriginalErrorReraised ==
    decorated =>
        \A j \in DOMAIN trace : ApplyRaised(j) =>
            /\ pc \in {"post_fail", "raised"}
            /\ pc = "raised" =>
                  /\ exc = trace[j].err
                  /\ \E i \in (j + 1)..Len(trace) :
                        trace[i].kind = "hook" /\ trace[i].site = "post_fail"

\* the controller raised, the post-fail launch itself failed, and the caller
\* has the error
C4_Witness ==
    /\ decorated /\ pc = "raised"
    /\ \E j \in DOMAIN trace : ApplyRaised(j) /\ exc = trace[j].err
    /\ \E i \in DOMAIN trace : IsPopen(i, "post_fail") /\ ~trace[i].ok

\* C5: every failed launch is followed at once by a warning logged for the
\* same hook; after a failed prior-switch launch the controller's apply is
\* the next thing called; after a failed post-switch launch the invocation
\* has returned normally and post-fail is not launched; and an error that
\* reaches the caller is the controller's own or the store's, never the
\* launch failure.
C5_LaunchFailureSwallowed ==
    /\ \A i \in DOMAIN trace : (trace[i].kind = "Popen" /\ ~trace[i].ok) =>
          /\ i < Len(trace)
          /\ trace[i + 1].kind = "warning"
          /\ trace[i + 1].site = trace[i].site
          /\ trace[i + 1].err = PopenError
    /\ \A i \in DOMAIN trace : (IsPopen(i, "prior_switch") /\ ~trace[i].ok) =>
          \/ pc = "do_apply"
          \/ \E j \in (i + 1)..Len(trace) : IsApply(j)
    /\ \A i \in DOMAIN trace : (IsPopen(i, "post_switch") /\ ~trace[i].ok) =>
          pc = "returned" /\ exc = NoExc /\ ~Launched("post_fail")
    /\ pc = "raised" =>
          \/ \E j \in DOMAIN trace : ApplyRaised(j) /\ exc = trace[j].err
          \/ op = "switch_to" /\ exc = read_one(profile_name).raised

\* both the prior- and the post-switch launch failed and the invocation
\* returned normally
C5_Witness ==
    /\ decorated /\ pc = "returned"
    /\ \E i \in DOMAIN trace : IsPopen(i, "prior_switch") /\ ~trace[i].ok
    /\ \E i \in DOMAIN trace : IsPopen(i, "post_switch") /\ ~trace[i].ok
    /\ \E j \in DOMAIN trace : ApplyReturned(j)

-----------------------------------------------------------------------------
(* C6: the environment of the hooks *)

\* C6: every launched hook gets the process environment with randr_profile
\* set to the name of the profile being applied, and the post-fail hook gets
\* in addition randr_error set to str(e) of the error e the controller's
\* apply raised, whatever that message is.
C6_HookEnvironment ==
    \A i \in DOMAIN trace : trace[i].kind = "Popen" =>
        /\ trace[i].env["randr_profile"] = Str(p.name)
        /\ \A v \in EnvVars \ {"randr_profile", "randr_error"} :
              trace[i].env[v] = environ[v]
        /\ trace[i].site /= "post_fail" =>
              trace[i].env["randr_error"] = environ["randr_error"]
        /\ trace[i].site = "post_fail" =>
              \A j \in 1..(i - 1) : ApplyRaised(j) =>
                  trace[i].env["randr_error"] = Str(PyStr(trace[j].err))

-----------------------------------------------------------------------------
(* C7, C8: operations that end before xrandr.apply *)

\* C7: a switch_auto for which find_best finds no eligible profile (an empty
\* store included) has returned normally, having logged one warning and done
\* nothing else: no controller call, no hook call, no launch.
C7_NoMatchNoApply ==
    (op = "switch_auto" /\ ~find_best(profiles, xrandr_outputs).found) =>
        /\ pc = "returned"
        /\ exc = NoExc
        /\ Len(trace) = 1
        /\ trace[1].kind = "warning"
        /\ trace[1].site = "switch_auto"

\* switch_auto found nothing eligible among stored profiles, on an object
\* whose apply is wrapped with three non-blank hooks
C7_Witness ==
    /\ op = "switch_auto" /\ pc = "returned"
    /\ profiles /= {}
    /\ ~find_best(profiles, xrandr_outputs).found
    /\ decorated
    /\ NonBlank(prior_switch) /\ NonBlank(post_switch) /\ NonBlank(post_fail)

\* C8: a switch_to for a name the store does not have has ended by raising
\* the store's not-found error for that name, with nothing done: no
\* controller call, no hook call, no launch.
C8_NotFoundPropagates ==
    (op = "switch_to" /\ ~\E pr \in profiles : pr.name = profile_name) =>
        /\ pc = "raised"
        /\ exc = [cls |-> "NotFound", args |-> <<profile_name>>]
        /\ trace = <<>>

\* switch_to of a missing name on a non-empty store, with a wrapped apply
\* and three non-blank hooks
C8_Witness ==
    /\ op = "switch_to" /\ pc = "raised"
    /\ profiles /= {}
    /\ ~\E pr \in profiles : pr.name = profile_name
    /\ decorated
    /\ NonBlank(prior_switch) /\ NonBlank(post_switch) /\ NonBlank(post_fail)

-----------------------------------------------------------------------------
(* C9, C10: ensure_homes (under SpecHomes) *)

\* home h had a profiles subdirectory in filesystem d
ValidIn(d, h) == join(h, profile_dir) \in d

\* the candidates of the last call that were valid when it was made
ValidCandidates ==
    LET WasValid(h) == ValidIn(eh.dirs, h) IN SelectSeq(eh.candidates, WasValid)

\* C9: after a call made with at least one valid candidate, homes is the
\* list of the valid candidates in their order, nothing was created, and if
\* the preferred home is not one of them a warning about the preferred
\* location was logged and the preferred home is not in homes.
C9_ValidHomesFiltered ==
    (eh.called /\ \E i \in DOMAIN eh.candidates : ValidIn(eh.dirs, eh.candidates[i])) =>
        /\ homes = ValidCandidates
        /\ eh.made = {}
        /\ dirs = eh.dirs
        /\ (\A i \in DOMAIN ValidCandidates : ValidCandidates[i] /= preferred_home) =>
              /\ \E k \in DOMAIN eh.log :
                    eh.log[k] = HLog("warning", "No home directory found under preferred location")
              /\ \A i \in DOMAIN homes : homes[i] /= preferred_home

\* candidates [A, B] with only B valid gave [B]
C9_Witness ==
    /\ eh.called
    /\ Len(eh.candidates) = 2
    /\ eh.candidates[1] = preferred_home
    /\ ~ValidIn(eh.dirs, eh.candidates[1])
    /\ ValidIn(eh.dirs, eh.candidates[2])
    /\ homes = <<eh.candidates[2]>>

\* C10: after a call made with no valid candidate, the profiles subdirectory
\* of the first candidate, which is the preferred home, was created, nothing
\* was created under any other home, and homes is the list of that one home;
\* after any call homes is non-empty and every home in it is valid.
C10_BootstrapPreferred ==
    eh.called =>
        /\ (\A i \in DOMAIN eh.candidates : ~ValidIn(eh.dirs, eh.candidates[i])) =>
              /\ preferred_home = eh.candidates[1]
              /\ join(preferred_home, profile_dir) \in eh.made
              /\ \A d \in eh.made : d[1] = preferred_home
              /\ homes = <<preferred_home>>
        /\ Len(homes) > 0
        /\ \A i \in DOMAIN homes : ValidIn(dirs, homes[i])

\* two different candidates, neither valid: the first one was bootstrapped
C10_Witness ==
    /\ eh.called
    /\ Len(eh.candidates) = 2
    /\ eh.candidates[1] /= eh.candidates[2]
    /\ \A i \in DOMAIN eh.candidates : ~ValidIn(eh.dirs, eh.candidates[i])
    /\ homes = <<eh.candidates[1]>>
    /\ ValidIn(dirs, eh.candidates[1])

-----------------------------------------------------------------------------
(* C13: unset and blank hooks *)

\* the position apply_hook is at after the hook call of `site` has returned
AfterStage(site) ==
    CASE site = "prior_switch" -> "do_apply"
      [] site = "post_switch" -> "returned"
      [] site = "post_fail" -> "raised"

\* C13: a hook call whose command is None or only whitespace starts no
\* child, logs nothing and raises nothing: the trace holds no Popen and no
\* warning for that hook, the call adds no child, and when the call is the
\* last thing done the operation stands at the statement that follows it,
\* with the exception apply_hook holds untouched.
C13_BlankHookNoOp ==
    \A i \in DOMAIN trace :
        (trace[i].kind = "hook" /\ ~NonBlank(stage_cmd(trace[i].site))) =>
            /\ \A k \in DOMAIN trace :
                  trace[k].site = trace[i].site => trace[k].kind = "hook"
            /\ Len(children) =
                  Cardinality({k \in DOMAIN trace : trace[k].kind = "Popen" /\ trace[k].ok})
            /\ i = Len(trace) =>
                  /\ pc = AfterStage(trace[i].site)
                  /\ trace[i].site /= "post_fail" => exc = NoExc
                  /\ trace[i].site = "post_fail" =>
                        \E j \in 1..(i - 1) : ApplyRaised(j) /\ exc = trace[j].err

\* an invocation with a blank prior_switch and an unset post_switch has
\* returned, the controller having been called, and nothing was launched
C13_Witness ==
    /\ decorated /\ pc = "returned"
    /\ prior_switch /= None /\ ~NonBlank(prior_switch)
    /\ post_switch = None
    /\ \E j \in DOMAIN trace : ApplyReturned(j)
    /\ \A k \in DOMAIN trace : trace[k].kind /= "Popen"
    /\ children = <<>>

-----------------------------------------------------------------------------
(* The process together with the hook children it has launched *)

\* a running child ends, with exit status 0 or not; nothing in the process
\* is told
ChildExits(i, status) ==
    /\ i \in DOMAIN children
    /\ children[i] = "running"
    /\ children' = [children EXCEPT ![i] = status]
    /\ UNCHANGED <<decorated, prior_switch, post_switch, post_fail, environ,
                   environ0, earlier_error, profiles, op, profile_name,
                   xrandr_outputs, pc, p, exc, trace, hvars, cvars, dvars>>

\* one RandrCtl object, hooked or not, over a store holding one profile
InitChildren ==
    /\ Init
    /\ environ["randr_error"] = None
    /\ profiles = {Office}

NextChildren ==
    \/ \E name \in RequestNames : SwitchTo(name)
    \/ PriorSwitchHook
    \/ DoApplyReturns
    \/ \E e \in ApplyErrors : DoApplyRaises(e)
    \/ PostSwitchHook
    \/ PostFailHook
    \/ \E i \in 1..2, status \in {"exit0", "exit1"} : ChildExits(i, status)

SpecChildren == InitChildren /\ [][NextChildren]_vars

\* The process is one thread: a hook statement it has reached is run.  The
\* controller may hang, a child may never exit and the caller may never call
\* again, so no fairness is stated for those.
Fairness ==
    /\ WF_vars(PriorSwitchHook)
    /\ WF_vars(PostSwitchHook)
    /\ WF_vars(PostFailHook)

SpecLive == SpecChildren /\ Fairness

-----------------------------------------------------------------------------
(* C14, C18: children are not waited for *)

\* a child changes state (as opposed to being launched or forgotten)
ChildChanges ==
    /\ Len(children') = Len(children)
    /\ children' /= children

\* C14: whatever the children launched so far are doing, the statement the
\* invocation stands at can run (a hook statement, or the controller call,
\* which can return); and a child's exit, with either status, changes
\* nothing of the invocation: not its position, what it has done, the error
\* it holds or the process environment.
C14_FireAndForget ==
    /\ [](pc = "prior_switch" => ENABLED PriorSwitchHook)
    /\ [](pc = "do_apply" => ENABLED DoApplyReturns)
    /\ [](pc = "post_switch" => ENABLED PostSwitchHook)
    /\ [](pc = "post_fail" => ENABLED PostFailHook)
    /\ [][ChildChanges => UNCHANGED <<pc, trace, exc, p, op, environ>>]_vars

\* the invocation has returned, the controller having been called after the
\* prior-switch child was launched, and that child is still running while
\* the post-switch child has exited with a non-zero status
C14_Witness ==
    /\ decorated /\ pc = "returned"
    /\ \E j \in DOMAIN trace : ApplyReturned(j)
    /\ children = <<"running", "exit1">>

\* C18: an invocation that stands at its post-switch or post-fail hook (the
\* controller call has returned or raised) reaches its end, returned or
\* raised; and one that stands at its prior-switch hook reaches the
\* controller call with nothing of the process holding that call back: only
\* the controller call itself can keep an invocation from ending.
C18_PipelineTerminates ==
    /\ (pc \in {"post_switch", "post_fail"}) ~> Finished
    /\ (pc = "prior_switch") ~> (pc = "do_apply" /\ ENABLED DoApplyReturns)

\* the invocation has ended by raising while both children it launched, the
\* prior-switch and the post-fail one, are still running
C18_Witness ==
    /\ decorated /\ pc = "raised"
    /\ \E j \in DOMAIN trace : ApplyRaised(j)
    /\ Launched("prior_switch") /\ Launched("post_fail")
    /\ children = <<"running", "running">>

-----------------------------------------------------------------------------
(* C17: the process environment across invocations *)

\* C17: os.environ is what the process was started with, however many hooks
\* have been launched; a prior-switch or post-switch child has for
\* randr_error what the process itself inherited, never what an earlier
\* invocation's post-fail child was given; and every child has for
\* randr_profile the name of the profile of its own invocation.
C17_EnvironUnchanged ==
    /\ environ = environ0
    /\ \A i \in DOMAIN trace : trace[i].kind = "Popen" =>
          /\ trace[i].env["randr_profile"] = Str(p.name)
          /\ trace[i].site \in {"prior_switch", "post_switch"} =>
                trace[i].env["randr_error"] = environ0["randr_error"]

\* an earlier invocation's post-fail child was given a randr_error, the
\* process inherited none, and a later invocation has launched its
\* prior-switch and post-switch children and returned
C17_Witness ==
    /\ earlier_error /= None
    /\ environ0["randr_error"] = None
    /\ pc = "returned"
    /\ \E i \in DOMAIN trace : IsPopen(i, "prior_switch") /\ trace[i].ok
    /\ \E i \in DOMAIN trace : IsPopen(i, "post_switch") /\ trace[i].ok

-----------------------------------------------------------------------------
(* C19: each step of an invocation happens at most once *)

\* C19: in the invocation in flight or just ended the controller's apply
\* has been called at most once, each hook has been launched at most once,
\* post-switch and post-fail have not both been launched, and a launch of
\* either comes after the controller call has finished.
C19_AtMostOnce ==
    /\ \A i, j \in DOMAIN trace : (IsApply(i) /\ IsApply(j)) => i = j
    /\ \A site \in {"prior_switch", "post_switch", "post_fail"} :
          \A i, j \in DOMAIN trace :
              (IsPopen(i, site) /\ IsPopen(j, site)) => i = j
    /\ ~(Launched("post_switch") /\ Launched("post_fail"))
    /\ \A i \in DOMAIN trace :
          (IsPopen(i, "post_switch") \/ IsPopen(i, "post_fail")) =>
              \E j \in 1..(i - 1) : IsApply(j)

\* an invocation with three non-blank hooks has ended by raising, having
\* launched prior-switch, called the controller and launched post-fail
C19_Witness ==
    /\ decorated /\ pc = "raised"
    /\ NonBlank(prior_switch) /\ NonBlank(post_switch) /\ NonBlank(post_fail)
    /\ \E i, j, k \in DOMAIN trace :
          /\ i < j /\ j < k
          /\ IsPopen(i, "prior_switch") /\ ApplyRaised(j) /\ IsPopen(k, "post_fail")

-----------------------------------------------------------------------------
(* C11, C12, C20: the configuration get_randrctl builds from *)

\* home number i of the list has a config file that parses to a mapping
\* with the top-level key k
Defines(i, k) ==
    /\ files[homes[i]].kind = "mapping"
    /\ files[homes[i]][k].def

\* the first of a non-empty set of positions
First(D) == CHOOSE i \in D : \A j \in D : i <= j

\* C11: once get_randrctl has merged the config files, every top-level key
\* has, whole, the value given by the first home of the list whose file
\* defines it, and no value when no file defines it; and the hooks of the
\* RandrCtl it returns are the three properties of that one hooks section, a
\* property that section lacks being unset whatever other files say.
C11_ShallowOverlay ==
    (gr.called /\ gr.raised /= UpdateError) =>
        /\ \A k \in TopKeys :
              LET D == {i \in DOMAIN homes : Defines(i, k)}
              IN gr.config[k] = IF D = {} THEN Unset
                                ELSE files[homes[First(D)]][k]
        /\ (Built /\ gr.config["hooks"].def) =>
              /\ prior_switch = gr.config["hooks"].prior_switch
              /\ post_switch = gr.config["hooks"].post_switch
              /\ post_fail = gr.config["hooks"].post_fail

\* both homes define hooks, the second one defines post_switch and
\* post_fail, which the preferred one lacks, and another key; the RandrCtl
\* built has the preferred home's prior_switch and no other hook
C11_Witness ==
    /\ Built /\ Len(homes) = 2
    /\ Defines(1, "hooks") /\ Defines(2, "hooks") /\ Defines(2, "other")
    /\ ~Defines(1, "other")
    /\ files[homes[2]]["hooks"].post_switch /= None
    /\ files[homes[1]]["hooks"].post_switch = None
    /\ decorated /\ prior_switch = Cmd /\ post_switch = None /\ post_fail = None
    /\ gr.config["other"] = Other("b")

\* the config files with every unparsable one taken away
WithoutMalformed ==
    [h \in HomePaths |-> IF files[h] = Malformed THEN Absent ELSE files[h]]

\* C12: where get_randrctl returns for the homes without their unparsable
\* config files, it returns with them too, having logged an error for each
\* of them wherever it stands in the list, and with the same merged config,
\* the same other log entries and the same hooks as without them.
C12_MalformedSkipped ==
    gr.called =>
        LET r == get_randrctl(homes, WithoutMalformed)
        IN r.raised = NoExc =>
              /\ gr.raised = NoExc
              /\ gr.config = r.config
              /\ \A i \in DOMAIN homes : files[homes[i]] = Malformed =>
                    \E j \in DOMAIN gr.log : gr.log[j] = CLog("error", homes[i])
              /\ SelectSeq(gr.log, LAMBDA l : l.level /= "error") = r.log
              /\ decorated = r.decorated
              /\ prior_switch = r.prior_switch
              /\ post_switch = r.post_switch
              /\ post_fail = r.post_fail

\* the preferred home's config file does not parse, the other home's gives
\* hooks, and the RandrCtl was built with those
C12_Witness ==
    /\ Built /\ Len(homes) = 2
    /\ files[homes[1]] = Malformed
    /\ Defines(2, "hooks")
    /\ decorated /\ post_switch = Cmd
    /\ gr.log = <<CLog("debug", 2), CLog("error", 1)>>

\* what the caller and the system see of an operation: all but the marks
\* of the calls apply_hook makes of Hook.hook
Observable == SelectSeq(trace, LAMBDA ev : ev.kind /= "hook")

\* C20: the RandrCtl that get_randrctl returns has its apply wrapped exactly
\* when the hooks section of the merged config has one of the three
\* properties; and an operation that has ended on an apply whose hooks are
\* all unset or blank, wrapped or not, shows the one controller call on the
\* profile asked for and its outcome, returned or the error it raised, and
\* no child.
C20_WrapOnlyWithHooks ==
    /\ ~gr.called => ~decorated
    /\ Built =>
          (decorated <=>
              /\ gr.config["hooks"].def
              /\ \/ gr.config["hooks"].prior_switch /= None
                 \/ gr.config["hooks"].post_switch /= None
                 \/ gr.config["hooks"].post_fail /= None)
    /\ (/\ Built /\ Finished
        /\ ~NonBlank(prior_switch) /\ ~NonBlank(post_switch)
        /\ ~NonBlank(post_fail)) =>
          /\ Len(Observable) = 1
          /\ Observable[1].kind = "do_apply"
          /\ Observable[1].name = Office.name
          /\ Observable[1].ok <=> pc = "returned"
          /\ Observable[1].err = exc
          /\ children = <<>>

\* a config whose hooks are only blank commands gave a wrapped apply, and an
\* operation on it has ended with the controller's error
C20_Witness ==
    /\ Built /\ decorated /\ pc = "raised"
    /\ prior_switch = Blank /\ post_switch = None /\ post_fail = Str(<<>>)
    /\ \E j \in DOMAIN trace : ApplyRaised(j) /\ exc = trace[j].err
    /\ Len(trace) > 1

-----------------------------------------------------------------------------
(* C15, C16: what dump_current leaves out of the captured profile *)

\* the fields of an output record other than rate
OtherFields == {"name", "mode", "pos", "rotate", "primary"}

\* C15: the profile dump_current hands on has the outputs captured, as many
\* and in the same order, each with every field but rate as captured; their
\* rates are all None when include_refresh_rate is false, and as captured
\* when it is true.
C15_RateOnlyDropped ==
    dc.called =>
        LET out == dc.profile.outputs
            live == dc.live.outputs
        IN /\ Len(out) = Len(live)
           /\ \A i \in DOMAIN live :
                 /\ \A f \in OtherFields : out[i][f] = live[i][f]
                 /\ out[i].rate = IF dc.args.include_refresh_rate
                                  THEN live[i].rate ELSE None

\* two outputs captured with their rates were dumped without rates
C15_Witness ==
    /\ dc.called /\ ~dc.args.include_refresh_rate
    /\ Len(dc.live.outputs) = 2
    /\ \A i \in 1..2 : dc.live.outputs[i].rate /= None
    /\ \A i \in 1..2 : dc.profile.outputs[i].rate = None
    /\ dc.profile.outputs[2].name = LiveNames[2]

\* the arguments with the three rule flags set
AllRules(a) ==
    [a EXCEPT !.include_edid_rule = TRUE, !.include_supports_rule = TRUE,
              !.include_preferred_rule = TRUE]

\* C16: with the three rule flags false the dumped profile has no rules at
\* all; otherwise it has a rule for each output captured, in which each of
\* edid, supports and prefers is as captured when its flag is true and None
\* when its flag is false; and the outputs are what they are with all three
\* flags true.
C16_RuleFlags ==
    dc.called =>
        LET a == dc.args
            rules == dc.profile.rules
            live == dc.live.rules.val
        IN /\ IF ~a.include_edid_rule /\ ~a.include_supports_rule
                 /\ ~a.include_preferred_rule
              THEN rules = None
              ELSE /\ rules.some
                   /\ DOMAIN rules.val = DOMAIN live
                   /\ \A o \in DOMAIN live :
                         /\ rules.val[o].edid =
                               IF a.include_edid_rule THEN live[o].edid ELSE None
                         /\ rules.val[o].supports =
                               IF a.include_supports_rule THEN live[o].supports
                               ELSE None
                         /\ rules.val[o].prefers =
                               IF a.include_preferred_rule THEN live[o].prefers
                               ELSE None
           /\ dc.profile.outputs =
                 dump_current(dc.live, AllRules(a)).profile.outputs

\* rules captured with all three signals for two outputs were dumped with
\* the supports flag alone false: edid and prefers are there, supports not
C16_Witness ==
    /\ dc.called
    /\ dc.args.include_edid_rule /\ dc.args.include_preferred_rule
    /\ ~dc.args.include_supports_rule
    /\ Len(dc.live.outputs) = 2
    /\ \A o \in 1..2 :
          /\ dc.live.rules.val[o].supports /= None
          /\ dc.profile.rules.val[o].supports = None
          /\ dc.profile.rules.val[o].edid /= None
          /\ dc.profile.rules.val[o].prefers /= None

====
